---- MODULE Spec2Model ----
(***************************************************************************)
(* Model of the net-ops-agent approval loop: the Streamlit session script  *)
(* (src/src/app.py), the decision interpreter and tool dispatcher          *)
(* (src/src/agent.py) and the simulated tools (src/src/tools.py).          *)
(*                                                                         *)
(* app.py is a Streamlit script: every operator event (a button click, a   *)
(* chat submission) starts a run of the script from the top against the    *)
(* session state.  The two blocking calls of the script, analyze_request   *)
(* (line 125) and execute_tool (line 87), sit inside `with st.spinner`.    *)
(* The widgets of the page stay live while a run is blocked, so an event   *)
(* can arrive during the call.  Streamlit then starts the run for the new  *)
(* event and stops the superseded run at its next st.* command, which is   *)
(* the exit of the spinner: the superseded call itself runs to its end,    *)
(* the statements after it never run.  The model therefore splits each of  *)
(* the two handlers at its blocking call (pc), and keeps the superseded    *)
(* calls that are still blocked in `stale`.  The stretches of a run        *)
(* between two st.* commands take no time to speak of and are atomic here. *)
(* An event of a widget that the new run does not render (the page still   *)
(* showed it when the operator used it) fires no handler.                  *)
(***************************************************************************)
EXTENDS Integers, Sequences, FiniteSets, TLC

\* ---------------------------------------------------------------- bounds
MaxTurns == 5   \* longest transcript explored
MaxExec  == 2   \* most execute_tool calls explored for one proposal
MaxStale == 1   \* most superseded calls still blocked at one time
MaxParts == 2   \* most parts in an engine response
MaxArgs  == 2   \* most keys in the args of a single execute_tool call
MaxReplicas == 3  \* largest integer argument of a single execute_tool call

\* ------------------------------------------------ python values (tagged)
PyStr(s)  == [str |-> s]
PyInt(n)  == [int |-> n]
PyBool(b) == [bool |-> b]

IsStr(v)  == "str" \in DOMAIN v
IsInt(v)  == "int" \in DOMAIN v
IsBool(v) == "bool" \in DOMAIN v

\* python truthiness, as used by `if force` in restart_service
Truthy(v) ==
    IF IsBool(v) THEN v.bool
    ELSE IF IsInt(v) THEN v.int # 0
    ELSE v.str # ""

\* st.session_state.pending_action = None
None == [type |-> "none"]

\* a text content of a transcript turn (a structured result is a mapping
\* without the key "text")
Text(s) == [text |-> s]

Max(a, b) == IF a >= b THEN a ELSE b

\* ------------------------------------------------------------- tools.py
statuses == {"Running", "Failed", "Degraded"}

\* round(random.uniform(5.0, 95.0), 2) in hundredths: both ends of the range
CpuSamples == {500, 9500}
\* random.randint(128, 4096): both ends of the range
MemSamples == {128, 4096}
\* random.randint(-2, 2)
ScaleJitter == -2 .. 2
\* time.strftime("%Y-%m-%d %H:%M:%S")
Timestamp == "YYYY-MM-DD HH:MM:SS"

\* A call outcome is [ok |-> TRUE, value |-> result] or
\* [ok |-> FALSE, cause |-> str(e)] for a raised Exception.
Return(v) == [ok |-> TRUE, value |-> v]
Raise(c)  == [ok |-> FALSE, cause |-> c]

get_service_health(service_name) ==
    { Return([service |-> service_name,
              status |-> s,
              cpu_usage_percent |-> c,
              memory_usage_mb |-> m]) :
        s \in statuses, c \in CpuSamples, m \in MemSamples }

\* mutant: the two modes the other way round
restart_service_ModeSwapped(service_name, force) ==
    { Return([service |-> service_name,
              action |-> "restart",
              mode |-> IF Truthy(force) THEN "graceful" ELSE "force",
              status |-> "Success",
              timestamp |-> Timestamp]) }

restart_service(service_name, force) ==
    { Return([service |-> service_name,
              action |-> "restart",
              mode |-> IF Truthy(force) THEN "force" ELSE "graceful",
              status |-> "Success",
              timestamp |-> Timestamp]) }

\* mutant: line 80 without the max(1, ...)
scale_cluster_NoFloor(cluster_id, replicas) ==
    IF IsStr(replicas)
    THEN { Raise("can only concatenate str (not \"int\") to str") }
    ELSE LET n == IF IsInt(replicas) THEN replicas.int
                  ELSE IF replicas.bool THEN 1 ELSE 0
         IN { Return([cluster_id |-> cluster_id,
                      previous_replicas |-> n + d,
                      current_replicas |-> replicas,
                      status |-> "Scaled"]) : d \in ScaleJitter }

\* replicas + random.randint(-2, 2): int and bool add, str raises TypeError
scale_cluster(cluster_id, replicas) ==
    IF IsStr(replicas)
    THEN { Raise("can only concatenate str (not \"int\") to str") }
    ELSE LET n == IF IsInt(replicas) THEN replicas.int
                  ELSE IF replicas.bool THEN 1 ELSE 0
         IN { Return([cluster_id |-> cluster_id,
                      previous_replicas |-> Max(1, n + d),
                      current_replicas |-> replicas,
                      status |-> "Scaled"]) : d \in ScaleJitter }

\* ------------------------------------------------------------- agent.py
\* the signatures behind tool_map: required and defaulted parameter names
tool_map ==
    [get_service_health |-> [required |-> {"service_name"}, optional |-> {}],
     restart_service    |-> [required |-> {"service_name"}, optional |-> {"force"}],
     scale_cluster      |-> [required |-> {"cluster_id", "replicas"}, optional |-> {}]]

\* func(**tool_args): python's keyword binding, then the body of the tool
CallTool(tool_name, tool_args) ==
    LET sig        == tool_map[tool_name]
        unexpected == DOMAIN tool_args \ (sig.required \cup sig.optional)
        missing    == sig.required \ DOMAIN tool_args
    IN  IF unexpected # {}
        THEN { Raise(tool_name \o "() got an unexpected keyword argument '"
                     \o (CHOOSE k \in unexpected : TRUE) \o "'") }
        ELSE IF missing # {}
        THEN { Raise(tool_name \o "() missing required positional argument: '"
                     \o (CHOOSE k \in missing : TRUE) \o "'") }
        ELSE IF tool_name = "get_service_health"
        THEN get_service_health(tool_args.service_name)
        ELSE IF tool_name = "restart_service"
        THEN restart_service(tool_args.service_name,
                             IF "force" \in DOMAIN tool_args
                             THEN tool_args.force ELSE PyBool(FALSE))
        ELSE scale_cluster(tool_args.cluster_id, tool_args.replicas)

\* the functions of tools.py that execute_tool calls: func(**tool_args) on line
\* 92 is reached only past the `if not func: return` of lines 87-88
execute_tool_calls(tool_name, tool_args) ==
    IF tool_name \notin DOMAIN tool_map THEN {} ELSE {tool_name}

\* tool_map[tool_name] inside the try block in place of tool_map.get
execute_tool_LookupInsideTry(tool_name, tool_args) ==
    IF tool_name \notin DOMAIN tool_map
    THEN { [error |-> "Tool execution failed: '" \o tool_name \o "'"] }
    ELSE { IF o.ok THEN o.value
           ELSE [error |-> "Tool execution failed: " \o o.cause] :
             o \in CallTool(tool_name, tool_args) }

\* the set of values execute_tool can return for this call
execute_tool(tool_name, tool_args) ==
    IF tool_name \notin DOMAIN tool_map
    THEN { [error |-> "Unknown tool: " \o tool_name] }
    ELSE { IF o.ok THEN o.value
           ELSE [error |-> "Tool execution failed: " \o o.cause] :
             o \in CallTool(tool_name, tool_args) }

\* ---- the reasoning engine, as analyze_request sees it in one call ----
\* A response part carries a function call or text (part.function_call is
\* falsy on a text part).
TextPart(t)     == [function_call |-> None, text |-> t]
CallPart(n, a)  == [function_call |-> [name |-> n, args |-> a], text |-> ""]

\* One behaviour of the engine: the parts of its response and the step of
\* analyze_request at which it raises ("none": it does not).
\*   start_chat (line 41), send_message (44), parts (48), args (54), text (60)
Engine(parts, fail, cause) == [parts |-> parts, fail |-> fail, cause |-> cause]

WebApi == PyStr("web-api")

\* the parts the explored responses are made of
PartAlphabet ==
    { TextPart("I can help you with network operations."),
      TextPart(""),
      CallPart("get_service_health", [service_name |-> WebApi]),
      CallPart("nonexistent_tool", <<>>) }

PartSeqs == UNION { [1 .. n -> PartAlphabet] : n \in 0 .. MaxParts }

FailSteps   == {"start_chat", "send_message", "parts", "args", "text"}
FailCauses  == {"API Timeout", "malformed response"}

EngineBehaviours ==
    { Engine(parts, "none", "") : parts \in PartSeqs }
    \cup { Engine(parts, f, c) : parts \in PartSeqs, f \in FailSteps, c \in FailCauses }

\* the behaviours of the engine that the session is explored with: a reply,
\* a call after text and before a second call, a call of an unregistered
\* tool, a call whose tool raises, a call whose arguments do not bind (the
\* required one is missing, the one given is not declared), and a failed
\* request
SessionEngines ==
    { Engine(<<TextPart("I can help you with network operations.")>>, "none", ""),
      Engine(<<TextPart("Restarting now."),
               CallPart("restart_service", [service_name |-> WebApi, force |-> PyBool(TRUE)]),
               CallPart("scale_cluster", [cluster_id |-> PyStr("prod"), replicas |-> PyInt(5)])>>,
             "none", ""),
      Engine(<<CallPart("nonexistent_tool", <<>>)>>, "none", ""),
      Engine(<<CallPart("scale_cluster", [cluster_id |-> PyStr("prod"), replicas |-> PyStr("5")])>>,
             "none", ""),
      Engine(<<CallPart("get_service_health", [verbose |-> PyBool(TRUE)])>>, "none", ""),
      Engine(<<>>, "send_message", "API Timeout") }

\* response.text: the text of the parts, joined
RECURSIVE ResponseText(_)
ResponseText(parts) ==
    IF parts = <<>> THEN ""
    ELSE Head(parts).text \o ResponseText(Tail(parts))

\* mutant: the loop runs to its end and keeps the call it saw last
RECURSIVE FirstCall_Last(_)
FirstCall_Last(parts) ==
    IF parts = <<>> THEN None
    ELSE LET rest == FirstCall_Last(Tail(parts))
         IN  IF rest # None THEN rest ELSE Head(parts).function_call

\* `for part in response.parts: if part.function_call: return ...`
\* the first part, in order, that carries a function call; None if none does
RECURSIVE FirstCall(_)
FirstCall(parts) ==
    IF parts = <<>> THEN None
    ELSE IF Head(parts).function_call # None THEN Head(parts).function_call
    ELSE FirstCall(Tail(parts))

\* mutant: the name of the call is looked up in the tool map before the
\* decision is built, and a name that is not registered is answered in text
TryAnalyze_ChecksTool(user_input, engine) ==
    IF engine.fail \in {"start_chat", "send_message", "parts"}
    THEN Raise(engine.cause)
    ELSE LET fc == FirstCall(engine.parts)
         IN  IF fc # None
             THEN IF engine.fail = "args"
                  THEN Raise(engine.cause)
                  ELSE IF fc.name \notin DOMAIN tool_map
                  THEN Return([type |-> "chat",
                               response |-> "Unknown tool: " \o fc.name])
                  ELSE Return([type |-> "action", tool |-> fc.name, args |-> fc.args])
             ELSE IF engine.fail = "text"
                  THEN Raise(engine.cause)
                  ELSE Return([type |-> "chat",
                               response |-> ResponseText(engine.parts)])

\* the try block of analyze_request (lines 39-61): what it returns, or the
\* exception an engine step raises inside it
TryAnalyze(user_input, engine) ==
    IF engine.fail \in {"start_chat", "send_message", "parts"}
    THEN Raise(engine.cause)
    ELSE LET fc == FirstCall(engine.parts)
         IN  IF fc # None
             THEN IF engine.fail = "args"
                  THEN Raise(engine.cause)
                  ELSE Return([type |-> "action", tool |-> fc.name, args |-> fc.args])
             ELSE IF engine.fail = "text"
                  THEN Raise(engine.cause)
                  ELSE Return([type |-> "chat",
                               response |-> ResponseText(engine.parts)])

\* `except Exception as e` (lines 63-67): every exception of the try block
\* becomes a chat decision; an exception that left analyze_request would be
\* the outcome Raise(cause) instead of a Return.
Except(outcome) ==
    IF outcome.ok THEN outcome
    ELSE Return([type |-> "chat",
                 response |-> "Error interacting with Agent: " \o outcome.cause])

\* mutant: the fallback `return` of line 58 placed after the try
\* statement, so that a failure of response.text leaves analyze_request
analyze_request_TextOutsideTry(user_input, engine) ==
    IF engine.fail = "text" /\ FirstCall(engine.parts) = None
    THEN Raise(engine.cause)
    ELSE Except(TryAnalyze(user_input, engine))

\* the outcome of one call of analyze_request
analyze_request(user_input, engine) == Except(TryAnalyze(user_input, engine))

\* --------------------------------------------------------------- app.py
Prompts == {"Check health of web-api", "What can you do?"}

VARIABLES
    messages,        \* st.session_state.messages: the transcript
    pending_action,  \* st.session_state.pending_action: None or the proposal
    pc,              \* where the live script run is: "idle" (no run, the page
                     \* waits for an event), "analyzing" (blocked in
                     \* analyze_request, line 125), "executing" (blocked in
                     \* execute_tool, line 87)
    stale,           \* the calls of superseded runs that are still blocked
                     \* (cleared: history, the session was reset since)
    event,           \* history: the kind of the step just taken
    callIn,          \* the arguments of a single call of a function of
                     \* agent.py made on its own, and
    callOut,         \* its outcome (None before the call)
    execCount,       \* history: the execute_tool calls made so far for the
                     \* proposal stored last
    lastExec,        \* history: tool and args of the latest execute_tool call
    resolution       \* history: how the proposal stored last left the slot:
                     \* "approved", "rejected", "reset"; "none" while it is
                     \* pending and before any proposal

session == <<messages, pending_action, pc, stale, event, execCount, lastExec,
             resolution>>
call    == <<callIn, callOut>>
vars    == <<session, call>>

user(prompt)      == [role |-> "user", content |-> Text(prompt)]
assistant(c)      == [role |-> "assistant", content |-> c]
\* the f-strings of line 92 and line 107 (markdown backquotes written as ')
Announcement(tool) == Text("Executed '" \o tool \o "'. Result:")
RejectionNotice(tool) ==
    Text("Action '" \o tool \o "' was rejected by the operator.")

StaleCount == Len(stale)

\* The run in progress is superseded by a new event: its blocking call goes
\* on to its end, its remaining statements never run.
Supersede ==
    IF pc = "analyzing"
    THEN Append(stale, [kind |-> "analyze",
                        call |-> messages[Len(messages)].content,
                        cleared |-> FALSE])
    ELSE IF pc = "executing"
    THEN Append(stale, [kind |-> "execute", call |-> lastExec,
                        cleared |-> FALSE])
    ELSE stale

\* execute_tool blocks in this call: the tool is registered and its
\* arguments bind, so that its time.sleep is reached (tools.py lines 23, 51,
\* 77).  The other calls return at once.
Blocks(c) ==
    /\ c.tool \in DOMAIN tool_map
    /\ DOMAIN c.args \subseteq
           tool_map[c.tool].required \cup tool_map[c.tool].optional
    /\ tool_map[c.tool].required \subseteq DOMAIN c.args

\* an event can start a run now: no run is in progress, or the run in
\* progress is blocked in its call
CanSupersede ==
    \/ pc = "idle"
    \/ /\ StaleCount < MaxStale
       /\ pc = "executing" => Blocks(lastExec)

\* lines 34-38
Init ==
    /\ messages = <<>>
    /\ pending_action = None
    /\ pc = "idle"
    /\ stale = <<>>
    /\ event = "start"
    /\ execCount = 0
    /\ lastExec = None
    /\ callIn = None
    /\ callOut = None
    /\ resolution = "none"

\* mutant: the button clears the transcript and leaves the slot as it is
Reset_KeepsPending ==
    /\ CanSupersede
    /\ messages' = <<>>
    /\ pc' = "idle"
    /\ stale' = [k \in DOMAIN Supersede |->
                    [Supersede[k] EXCEPT !.cleared = TRUE]]
    /\ UNCHANGED call
    /\ UNCHANGED resolution
    /\ event' = "reset"
    /\ UNCHANGED <<pending_action, execCount, lastExec>>

\* lines 50-53: the sidebar button is rendered in every run
Reset ==
    /\ CanSupersede
    /\ messages' = <<>>
    /\ pending_action' = None
    /\ pc' = "idle"
    /\ stale' = [k \in DOMAIN Supersede |->
                    [Supersede[k] EXCEPT !.cleared = TRUE]]
    /\ UNCHANGED call
    /\ resolution' = IF pending_action # None THEN "reset" ELSE resolution
    /\ event' = "reset"
    /\ UNCHANGED <<execCount, lastExec>>

\* mutant: the chat input without the guard of line 116
Submit_WhilePending(prompt) ==
    /\ CanSupersede
    /\ Len(messages) + 3 <= MaxTurns
    /\ messages' = Append(messages, user(prompt))
    /\ pc' = "analyzing"
    /\ stale' = Supersede
    /\ UNCHANGED call
    /\ UNCHANGED resolution
    /\ event' = "submit"
    /\ UNCHANGED <<pending_action, execCount, lastExec>>

\* lines 116-125: a chat submission, up to the call of analyze_request
Submit(prompt) ==
    /\ pending_action = None
    /\ CanSupersede
    /\ Len(messages) + 3 <= MaxTurns
    /\ messages' = Append(messages, user(prompt))
    /\ pc' = "analyzing"
    /\ stale' = Supersede
    /\ UNCHANGED call
    /\ UNCHANGED resolution
    /\ event' = "submit"
    /\ UNCHANGED <<pending_action, execCount, lastExec>>

\* mutant: line 134 keeps the tool of the decision and not its arguments
AnalyzeReturn_DropsArgs(engine) ==
    /\ pc = "analyzing"
    /\ LET prompt   == messages[Len(messages)].content.text
           response == analyze_request(prompt, engine).value
       IN  IF response.type = "chat"
           THEN /\ messages' = Append(messages, assistant(Text(response.response)))
                /\ UNCHANGED <<pending_action, execCount, resolution>>
           ELSE /\ pending_action' = [response EXCEPT !.args = <<>>]
                /\ execCount' = 0
                /\ resolution' = "none"
                /\ UNCHANGED messages
    /\ pc' = "idle"
    /\ UNCHANGED call
    /\ event' = "analyze_return"
    /\ UNCHANGED <<stale, lastExec>>

\* lines 125-135: analyze_request returns to the live run
AnalyzeReturn(engine) ==
    /\ pc = "analyzing"
    /\ LET prompt   == messages[Len(messages)].content.text
           response == analyze_request(prompt, engine).value
       IN  IF response.type = "chat"
           THEN /\ messages' = Append(messages, assistant(Text(response.response)))
                /\ UNCHANGED <<pending_action, execCount, resolution>>
           ELSE /\ pending_action' = response
                /\ execCount' = 0
                /\ resolution' = "none"
                /\ UNCHANGED messages
    /\ pc' = "idle"
    /\ UNCHANGED call
    /\ event' = "analyze_return"
    /\ UNCHANGED <<stale, lastExec>>

\* lines 70-87: the Approve button, up to the call of execute_tool
Approve ==
    /\ pending_action # None
    /\ CanSupersede
    /\ execCount < MaxExec
    /\ execCount' = execCount + 1
    /\ lastExec' = [tool |-> pending_action.tool, args |-> pending_action.args]
    /\ pc' = "executing"
    /\ stale' = Supersede
    /\ UNCHANGED call
    /\ UNCHANGED resolution
    /\ event' = "approve"
    /\ UNCHANGED <<messages, pending_action>>

\* mutant: an error result leaves the proposal pending for a retry
ExecuteReturn_KeepsFailed ==
    /\ pc = "executing"
    /\ \E result \in execute_tool(pending_action.tool, pending_action.args) :
          /\ messages' = Append(Append(messages,
                                       assistant(Announcement(pending_action.tool))),
                                assistant(result))
          /\ pending_action' = IF "error" \in DOMAIN result
                               THEN pending_action ELSE None
    /\ pc' = "idle"
    /\ UNCHANGED call
    /\ resolution' = "approved"
    /\ event' = "execute_return"
    /\ UNCHANGED <<stale, execCount, lastExec>>

\* mutant: the result replaces the last turn instead of following the
\* announcement
ExecuteReturn_Overwrites ==
    /\ pc = "executing"
    /\ \E result \in execute_tool(pending_action.tool, pending_action.args) :
          messages' = [messages EXCEPT ![Len(messages)] = assistant(result)]
    /\ pending_action' = None
    /\ pc' = "idle"
    /\ UNCHANGED call
    /\ resolution' = "approved"
    /\ event' = "execute_return"
    /\ UNCHANGED <<stale, execCount, lastExec>>

\* lines 87-101: execute_tool returns to the live run
ExecuteReturn ==
    /\ pc = "executing"
    /\ \E result \in execute_tool(pending_action.tool, pending_action.args) :
          messages' = Append(Append(messages,
                                    assistant(Announcement(pending_action.tool))),
                             assistant(result))
    /\ pending_action' = None
    /\ pc' = "idle"
    /\ UNCHANGED call
    /\ resolution' = "approved"
    /\ event' = "execute_return"
    /\ UNCHANGED <<stale, execCount, lastExec>>

\* mutant: the Reject handler runs the tool as the Approve handler does
Reject_Executes ==
    /\ pending_action # None
    /\ CanSupersede
    /\ messages' = Append(messages,
                          assistant(RejectionNotice(pending_action.tool)))
    /\ pending_action' = None
    /\ pc' = "idle"
    /\ stale' = Supersede
    /\ UNCHANGED call
    /\ resolution' = "rejected"
    /\ event' = "reject"
    /\ execCount' = execCount + 1
    /\ lastExec' = [tool |-> pending_action.tool, args |-> pending_action.args]

\* mutant: the Reject handler leaves the proposal in the slot
Reject_KeepsPending ==
    /\ pending_action # None
    /\ CanSupersede
    /\ messages' = Append(messages,
                          assistant(RejectionNotice(pending_action.tool)))
    /\ pc' = "idle"
    /\ stale' = Supersede
    /\ UNCHANGED call
    /\ resolution' = "rejected"
    /\ event' = "reject"
    /\ UNCHANGED <<pending_action, execCount, lastExec>>

\* lines 103-112: the Reject button
Reject ==
    /\ pending_action # None
    /\ CanSupersede
    /\ messages' = Append(messages,
                          assistant(RejectionNotice(pending_action.tool)))
    /\ pending_action' = None
    /\ pc' = "idle"
    /\ stale' = Supersede
    /\ UNCHANGED call
    /\ resolution' = "rejected"
    /\ event' = "reject"
    /\ UNCHANGED <<execCount, lastExec>>

\* mutant: analyze_request records the input in the chat_history list it is
\* given, which is the transcript itself (line 125)
StaleReturn_WritesHistory(i) ==
    /\ i \in DOMAIN stale
    /\ stale' = [k \in 1 .. Len(stale) - 1 |->
                    IF k < i THEN stale[k] ELSE stale[k + 1]]
    /\ UNCHANGED call
    /\ UNCHANGED resolution
    /\ IF stale[i].kind = "execute"
       THEN event' = "stale_return" /\ UNCHANGED messages
       ELSE /\ \E engine \in SessionEngines :
                 event' = "stale_" \o analyze_request(stale[i].call.text, engine).value.type
            /\ messages' = IF Len(messages) < MaxTurns
                           THEN Append(messages, user(stale[i].call.text))
                           ELSE messages
    /\ UNCHANGED <<pending_action, pc, execCount, lastExec>>

\* A superseded call returns (an execute_tool call with its result, an
\* analyze_request call with an action or a chat decision); its run stops
\* at the exit of the spinner (lines 86-87, 124-125) and writes nothing.
StaleReturn(i) ==
    /\ i \in DOMAIN stale
    /\ stale' = [k \in 1 .. Len(stale) - 1 |->
                    IF k < i THEN stale[k] ELSE stale[k + 1]]
    /\ UNCHANGED call
    /\ UNCHANGED resolution
    /\ IF stale[i].kind = "execute"
       THEN event' = "stale_return"
       ELSE \E engine \in SessionEngines :
              event' = "stale_" \o analyze_request(stale[i].call.text, engine).value.type
    /\ UNCHANGED <<messages, pending_action, pc, execCount, lastExec>>

\* mutant: the guard of line 116 around the analysis only, so that the text
\* submitted while a proposal is pending is still appended
UnrenderedWidgetEvent_AppendsInput(e) ==
    /\ pc = "idle"
    /\ IF e = "submit" THEN pending_action # None ELSE pending_action = None
    /\ UNCHANGED call
    /\ UNCHANGED resolution
    /\ event' = e
    /\ messages' = IF e = "submit" /\ Len(messages) < MaxTurns
                   THEN Append(messages, user("What can you do?"))
                   ELSE messages
    /\ UNCHANGED <<pending_action, pc, stale, execCount, lastExec>>

\* An event of a widget that the run it starts does not render: the buttons
\* of the approval box when nothing is pending (line 70), the chat input
\* while a proposal is pending (line 116).  The run renders the page and
\* no handler fires.
UnrenderedWidgetEvent(e) ==
    /\ pc = "idle"
    /\ IF e = "submit" THEN pending_action # None ELSE pending_action = None
    /\ UNCHANGED call
    /\ UNCHANGED resolution
    /\ event' = e
    /\ UNCHANGED <<messages, pending_action, pc, stale, execCount, lastExec>>

Next ==
    \/ Reset
    \/ \E prompt \in Prompts : Submit(prompt)
    \/ \E engine \in SessionEngines : AnalyzeReturn(engine)
    \/ Approve
    \/ ExecuteReturn
    \/ Reject
    \/ \E i \in 1 .. MaxStale : StaleReturn(i)
    \/ \E e \in {"submit", "approve", "reject"} : UnrenderedWidgetEvent(e)

Spec == Init /\ [][Next]_vars

TypeOK ==
    /\ Len(messages) <= MaxTurns
    /\ pc \in {"idle", "analyzing", "executing"}
    /\ execCount <= MaxExec
    /\ StaleCount <= MaxStale

\* ------------------------------------------------ single calls of agent.py
\* the tool names and args mappings execute_tool is called with on its own:
\* the registered names and one that is not, and every mapping of at most
\* MaxArgs of the keys below (the declared parameter names and one that no
\* tool declares) to a string, an integer or a boolean
ToolNames == DOMAIN tool_map \cup {"nonexistent_tool"}
ArgKeys   == {"service_name", "force", "cluster_id", "replicas", "verbose"}
ArgValues == {WebApi} \cup { PyInt(n) : n \in 0 .. MaxReplicas }
                      \cup { PyBool(b) : b \in BOOLEAN }
ArgMaps   == UNION { [K -> ArgValues] :
                       K \in { S \in SUBSET ArgKeys : Cardinality(S) <= MaxArgs } }

\* analyze_request called on its own (as tests/test_agent.py does), once,
\* against every explored behaviour of the engine; execute_tool called on
\* its own, once, with every explored tool name and args mapping
CallInit ==
    /\ Init!1 /\ Init!2 /\ Init!3 /\ Init!4 /\ Init!5 /\ Init!6 /\ Init!7
    /\ Init!10
    /\ callIn \in { [fn |-> "analyze_request", user_input |-> p, engine |-> e] :
                      p \in Prompts, e \in EngineBehaviours }
                 \cup { [fn |-> "execute_tool", tool_name |-> t, tool_args |-> a] :
                        t \in ToolNames, a \in ArgMaps }
    /\ callOut = None

CallAnalyze ==
    /\ callIn.fn = "analyze_request"
    /\ callOut = None
    /\ callOut' = analyze_request(callIn.user_input, callIn.engine)
    /\ UNCHANGED <<session, callIn>>

\* the outcome of the call and the tools it ran
CallExecute ==
    /\ callIn.fn = "execute_tool"
    /\ callOut = None
    /\ callOut' \in { [ok |-> TRUE, value |-> r,
                       calls |-> execute_tool_calls(callIn.tool_name, callIn.tool_args)] :
                        r \in execute_tool(callIn.tool_name, callIn.tool_args) }
    /\ UNCHANGED <<session, callIn>>

CallNext == CallAnalyze \/ CallExecute

CallSpec == CallInit /\ [][CallNext]_vars

\* The blocking calls end (the tools sleep for a fixed time, the request to
\* the engine returns or raises), and the operator decides on a proposal
\* that is put before them.
LiveSpec ==
    /\ Spec
    /\ WF_vars(ExecuteReturn)
    /\ WF_vars(\E engine \in SessionEngines : AnalyzeReturn(engine))
    /\ WF_vars(Reject)

\* ------------------------------------------------------------ properties
AwaitingApproval == pending_action # None
Idle             == pending_action = None

\* a step in which execute_tool is called
ExecuteCalled == execCount' = execCount + 1

IsPrefix(a, b) == Len(a) <= Len(b) /\ SubSeq(b, 1, Len(a)) = a

\* C1: execute_tool is called if and only if the operator approves the
\* pending proposal: every call is made by an approve step taken while a
\* proposal is pending and is made with that proposal's tool and args, every
\* approve step taken while a proposal is pending makes a call, and a reject
\* step makes none.
C1_NoExecuteWithoutApproval ==
    [][ /\ ExecuteCalled =>
              /\ event' = "approve"
              /\ AwaitingApproval
              /\ lastExec' = [tool |-> pending_action.tool,
                              args |-> pending_action.args]
        /\ (event' = "approve" /\ AwaitingApproval) => ExecuteCalled
        /\ event' = "reject" => (execCount' = execCount /\ lastExec' = lastExec)
      ]_vars

C1_Witness == event = "approve" /\ execCount = 1 /\ pc = "executing"

\* C2: approving a pending proposal calls execute_tool exactly once for it:
\* at no point have more calls than one been made for the stored proposal,
\* whatever further approve events arrive after or during the execution.
C2_ExactlyOnce == execCount <= 1

\* C3: the session holds at most one pending proposal, and a stored proposal
\* is never overwritten: a proposal is stored only into an empty slot, and a
\* slot that is full stays as it is until it is emptied.
C3_SinglePending ==
    [][ /\ pending_action'.type \in {"none", "action"}
        /\ (AwaitingApproval /\ pending_action' # None) =>
              (pending_action' = pending_action /\ event' # "analyze_return")
      ]_vars

C3_Witness == AwaitingApproval /\ Len(messages) >= 2 /\ event = "analyze_return"

\* C4: a submit-text event that arrives while a proposal is pending is not
\* processed: no turn is appended, analyze_request is not called and the
\* pending proposal stays as it is.
C4_NoInputWhilePending ==
    [][ (event' = "submit" /\ AwaitingApproval) =>
            /\ messages' = messages
            /\ pending_action' = pending_action
            /\ pc' = pc
            /\ pc' # "analyzing"
      ]_vars

C4_Witness == event = "submit" /\ AwaitingApproval

\* the engine raises in this call of analyze_request: at one of the steps
\* every call takes, when converting the arguments of a call the response
\* carries, or when reading the text of a response that carries no call
EngineFails(e) ==
    \/ e.fail \in {"start_chat", "send_message", "parts"}
    \/ e.fail = "args" /\ \E i \in DOMAIN e.parts : e.parts[i].function_call # None
    \/ e.fail = "text" /\ \A i \in DOMAIN e.parts : e.parts[i].function_call = None

\* C5: whenever the engine fails, analyze_request returns the chat decision
\* "Error interacting with Agent: <cause>", and no call of analyze_request
\* ends in an exception.
C5_InterpretNeverThrows ==
    (callOut # None /\ callIn.fn = "analyze_request") =>
        /\ callOut.ok
        /\ EngineFails(callIn.engine) =>
              callOut.value = [type |-> "chat",
                               response |-> "Error interacting with Agent: "
                                            \o callIn.engine.cause]

C5_Witness ==
    /\ callOut # None
    /\ callIn.fn = "analyze_request"
    /\ callIn.engine.fail = "text"
    /\ callIn.engine.parts # <<>>
    /\ callOut.ok
    /\ callOut.value.response = "Error interacting with Agent: API Timeout"

\* the sequence s without its i-th element
Remove(seq, i) ==
    [k \in 1 .. Len(seq) - 1 |-> IF k < i THEN seq[k] ELSE seq[k + 1]]

\* the execute_tool calls that return in this step with no reset of the
\* session since they were made: the call of the live run, or the call of
\* a superseded run
ReturningCalls ==
    IF event' = "execute_return" THEN {lastExec}
    ELSE IF event' = "stale_return"
    THEN { stale[i].call : i \in { k \in DOMAIN stale :
                                     /\ stale[k].kind = "execute"
                                     /\ ~stale[k].cleared
                                     /\ stale' = Remove(stale, k) } }
    ELSE {}

\* the transcript gains the announcement and then a result of call c, the
\* slot is emptied and the session is Idle
ResultAppended(c) ==
    /\ Len(messages') = Len(messages) + 2
    /\ IsPrefix(messages, messages')
    /\ messages'[Len(messages) + 1] = assistant(Announcement(c.tool))
    /\ messages'[Len(messages) + 2].role = "assistant"
    /\ messages'[Len(messages) + 2].content \in execute_tool(c.tool, c.args)
    /\ pending_action' = None
    /\ pc' = "idle"

\* C6: the execute_tool call of an approve event is followed by exactly two
\* assistant turns, the announcement and then the value returned, after
\* which the slot is empty and the session Idle.
C6_ApproveAppendsResult ==
    [][ \A c \in ReturningCalls : ResultAppended(c) ]_vars

\* C7: a reject event appends exactly one assistant turn, the rejection
\* notice that names the tool, empties the slot and leaves the session Idle
\* without calling execute_tool; and as long as no new proposal is stored,
\* no call of execute_tool is made for the proposal stored last.
C7_RejectDiscards ==
    [][ /\ (event' = "reject" /\ AwaitingApproval) =>
              /\ messages' = Append(messages,
                                    assistant(RejectionNotice(pending_action.tool)))
              /\ pending_action' = None
              /\ pc' = "idle"
              /\ ~ExecuteCalled
        /\ (Idle /\ event' # "analyze_return") =>
              (execCount' = execCount /\ lastExec' = lastExec)
      ]_vars

C7_Witness ==
    /\ event = "approve"
    /\ Idle
    /\ execCount = 0
    /\ messages # <<>>
    /\ messages[Len(messages)] = assistant(RejectionNotice("restart_service"))

\* every value execute_tool can return for call c is an error result
ExecutionFails(c) ==
    \A r \in execute_tool(c.tool, c.args) : "error" \in DOMAIN r

\* C8: when the execution of an approved proposal fails, the error result
\* is appended to the transcript after the announcement, the slot is
\* emptied and the session is Idle.
C8_FailureConsumesProposal ==
    [][ \A c \in ReturningCalls : ExecutionFails(c) => ResultAppended(c) ]_vars

\* C9: a step that resolves the pending proposal leaves the session Idle,
\* in Idle a submitted text is accepted (as long as the explored transcript
\* has room for the turns it brings), and a session that awaits approval
\* comes back to Idle.
C9_ReturnsToIdle ==
    /\ [][ event' \in {"reject", "execute_return"} =>
              (pending_action' = None /\ pc' = "idle") ]_vars
    /\ [](( /\ Idle
            /\ pc = "idle"
            /\ Len(messages) + 3 <= MaxTurns) =>
              \A p \in Prompts : ENABLED Submit(p))
    /\ (AwaitingApproval ~> (Idle /\ pc = "idle"))

C9_Witness ==
    /\ event = "execute_return"
    /\ Idle
    /\ pc = "idle"
    /\ messages # <<>>
    /\ "error" \in DOMAIN messages[Len(messages)].content

\* C10: the transcript is append-only: a step that is not a reset leaves
\* the transcript a prefix of the new one, and only a reset shortens it.
C10_AppendOnly ==
    [][ /\ event' # "reset" => IsPrefix(messages, messages')
        /\ Len(messages') < Len(messages) => event' = "reset"
      ]_vars

C10_Witness ==
    /\ event = "execute_return"
    /\ Len(messages) >= 5
    /\ messages[2].role = "assistant"

\* an operator event can arrive: the page is at rest, or the run in progress
\* is blocked in its call (and the explored number of superseded calls
\* leaves room for it)
AcceptsEvents ==
    \/ pc = "idle"
    \/ pc = "analyzing" /\ Len(stale) < MaxStale
    \/ pc = "executing" /\ Len(stale) < MaxStale /\ Blocks(lastExec)

\* C11: the reset command is enabled whenever an event can arrive, with or
\* without a pending proposal; a reset step leaves the transcript empty, the
\* slot empty and the session Idle and calls execute_tool for nothing; and
\* with the slot empty no call of execute_tool is made.
C11_ResetUnconditional ==
    /\ [](AcceptsEvents => ENABLED Reset)
    /\ [][ event' = "reset" =>
              /\ messages' = <<>>
              /\ pending_action' = None
              /\ pc' = "idle"
              /\ execCount' = execCount
              /\ lastExec' = lastExec ]_vars
    /\ [][ pending_action = None => ~ExecuteCalled ]_vars

\* a proposal that was discarded by a reset, and an approve event after it
C11_Witness ==
    /\ resolution = "reset"
    /\ event = "approve"
    /\ Idle
    /\ messages = <<>>
    /\ execCount = 0

\* C12: execute_tool called with a tool name that is not registered returns
\* the error mapping "Unknown tool: <name>" whatever the args are, calls no
\* function of tools.py and does not raise.
C12_UnknownTool ==
    ( /\ callOut # None
      /\ callIn.fn = "execute_tool"
      /\ callIn.tool_name \notin {"get_service_health", "restart_service",
                                  "scale_cluster"} ) =>
        /\ callOut.ok
        /\ callOut.value = [error |-> "Unknown tool: " \o callIn.tool_name]
        /\ callOut.calls = {}

C12_Witness ==
    /\ callOut # None
    /\ callIn.fn = "execute_tool"
    /\ callIn.tool_name = "nonexistent_tool"
    /\ callIn.tool_args = [service_name |-> WebApi, verbose |-> PyInt(1)]
    /\ callOut.value = [error |-> "Unknown tool: nonexistent_tool"]

\* the types the tools declare for their parameters (tools.py:5, 32, 61)
DeclaredType ==
    [service_name |-> "str", force |-> "bool", cluster_id |-> "str",
     replicas |-> "int"]

TypeOf(v) == IF IsStr(v) THEN "str" ELSE IF IsInt(v) THEN "int" ELSE "bool"

\* the args do not fit the tool: a required argument is missing, a name is
\* not declared, or a declared argument has a value of another type
Misfit(tool_name, tool_args) ==
    LET sig      == tool_map[tool_name]
        declared == sig.required \cup sig.optional
    IN  \/ sig.required \ DOMAIN tool_args # {}
        \/ DOMAIN tool_args \ declared # {}
        \/ \E k \in DOMAIN tool_args \cap declared :
              TypeOf(tool_args[k]) # DeclaredType[k]

\* C13: for every registered tool and every args mapping that omits a
\* required argument, has a name the tool does not declare, or gives a
\* declared argument a value of the wrong type, execute_tool returns an error
\* mapping (and not a success result) and does not raise.
C13_StrictBinding ==
    ( /\ callOut # None
      /\ callIn.fn = "execute_tool"
      /\ callIn.tool_name \in DOMAIN tool_map
      /\ Misfit(callIn.tool_name, callIn.tool_args) ) =>
        /\ callOut.ok
        /\ DOMAIN callOut.value = {"error"}

\* a superseded analyze_request call returns a decision of type t in this
\* step, with no reset of the session since the text was submitted
StaleDecision(t) ==
    /\ event' = "stale_" \o t
    /\ \E k \in DOMAIN stale : /\ stale[k].kind = "analyze"
                               /\ ~stale[k].cleared
                               /\ stale' = Remove(stale, k)

\* analyze_request returns an action decision (a chat decision) in this step
ProposalReturned ==
    \/ event' = "analyze_return" /\ pending_action' # None
    \/ StaleDecision("action")
ReplyReturned ==
    \/ event' = "analyze_return" /\ pending_action' = None
    \/ StaleDecision("chat")

\* the decisions of type t that analyze_request can return for the text
\* submitted last
Decisions(t) ==
    { d \in { analyze_request(messages[Len(messages)].content.text, e).value :
                e \in SessionEngines } : d.type = t }

\* the transcript ends with one user turn: the turn before it, if any, is
\* not a user turn
OneUserTurn(m) ==
    /\ m # <<>>
    /\ m[Len(m)].role = "user"
    /\ Len(m) > 1 => m[Len(m) - 1].role = "assistant"

\* C14: when analyze_request returns an action decision for a submitted
\* text, the proposal is stored in the empty slot with that tool and args,
\* the transcript is the one before the submission plus the one user turn,
\* and no turn is appended for as long as the proposal stays pending.
C14_ProposalStored ==
    [][ /\ ProposalReturned =>
              /\ pending_action = None
              /\ OneUserTurn(messages)
              /\ pending_action' \in Decisions("action")
              /\ messages' = messages
        /\ (AwaitingApproval /\ pending_action' # None) => messages' = messages
      ]_vars

\* C15: when analyze_request returns a chat decision for a submitted text
\* (the error reply of an engine failure included), the session stays Idle
\* with the slot empty, execute_tool is not called, and the transcript is
\* the one before the submission plus the user turn and one assistant text
\* turn with the reply.
C15_ChatReplyAppended ==
    [][ ReplyReturned =>
              /\ pending_action = None
              /\ pending_action' = None
              /\ pc' = "idle"
              /\ ~ExecuteCalled
              /\ OneUserTurn(messages)
              /\ \E d \in Decisions("chat") :
                    messages' = Append(messages, assistant(Text(d.response)))
      ]_vars

\* C16: a call of analyze_request (given the transcript as its chat_history)
\* and a call of execute_tool write neither the transcript nor the slot:
\* a call that returns to a stopped run leaves both as they are, and a call
\* that returns to the live run leaves the turns it was given in place, the
\* only writes of the step being those of the script after the call.
C16_OnlyControllerWrites ==
    [][ /\ event' \in {"stale_return", "stale_action", "stale_chat"} =>
              /\ messages' = messages
              /\ pending_action' = pending_action
        /\ event' \in {"analyze_return", "execute_return"} =>
              /\ IsPrefix(messages, messages')
              /\ pending_action' # pending_action =>
                    \/ pending_action' = None
                    \/ pending_action = None
      ]_vars

C16_Witness ==
    /\ event = "stale_return"
    /\ AwaitingApproval
    /\ pending_action.tool = "scale_cluster"
    /\ messages # <<>>

\* the calls of one kind that have not returned yet
InFlight(kind) ==
    (IF (kind = "execute" /\ pc = "executing") \/ (kind = "analyze" /\ pc = "analyzing")
     THEN 1 ELSE 0)
    + Cardinality({ k \in DOMAIN stale : stale[k].kind = kind })

\* C17: one operator event is processed to its end before the next is taken
\* up: no run is superseded during its blocking call, no analyze_request
\* call is in flight while a proposal awaits its decision, and at most one
\* execute_tool call of the session is in flight.
C17_OneEventAtATime ==
    /\ stale = <<>>
    /\ AwaitingApproval => InFlight("analyze") = 0
    /\ InFlight("execute") <= 1

Abs(n) == IF n >= 0 THEN n ELSE 0 - n

\* C18: for every cluster_id and every integer replicas >= 0, whatever the
\* random choice, scale_cluster returns status "Scaled", the cluster_id and
\* the replicas it was given as current_replicas, and a previous_replicas
\* that is at least 1 and at most 2 away from replicas.
C18_ScaleResult ==
    ( /\ callOut # None
      /\ callIn.fn = "execute_tool"
      /\ callIn.tool_name = "scale_cluster"
      /\ DOMAIN callIn.tool_args = {"cluster_id", "replicas"}
      /\ IsInt(callIn.tool_args.replicas)
      /\ callIn.tool_args.replicas.int >= 0 ) =>
        LET r == callOut.value
            n == callIn.tool_args.replicas.int
        IN  /\ DOMAIN r = {"cluster_id", "previous_replicas",
                           "current_replicas", "status"}
            /\ r.status = "Scaled"
            /\ r.cluster_id = callIn.tool_args.cluster_id
            /\ r.current_replicas = PyInt(n)
            /\ r.previous_replicas >= 1
            /\ Abs(r.previous_replicas - n) <= 2

C18_Witness ==
    /\ callOut # None
    /\ callIn.fn = "execute_tool"
    /\ callIn.tool_name = "scale_cluster"
    /\ callIn.tool_args = [cluster_id |-> WebApi, replicas |-> PyInt(0)]
    /\ callOut.value.status = "Scaled"
    /\ callOut.value.previous_replicas = 1

\* the result without the time of the call
SansTimestamp(r) == [k \in DOMAIN r \ {"timestamp"} |-> r[k]]

\* C19: restart_service returns the service name it was given, action
\* "restart", status "Success", and mode "force" when force is true,
\* "graceful" when force is false or left out; through execute_tool, args
\* without force give the result that args with force = False give.
C19_RestartMode ==
    ( /\ callOut # None
      /\ callIn.fn = "execute_tool"
      /\ callIn.tool_name = "restart_service"
      /\ "service_name" \in DOMAIN callIn.tool_args
      /\ DOMAIN callIn.tool_args \subseteq {"service_name", "force"}
      /\ "force" \in DOMAIN callIn.tool_args => IsBool(callIn.tool_args.force) ) =>
        LET r       == callOut.value
            a       == callIn.tool_args
            given   == "force" \in DOMAIN a
            withOff == [k \in DOMAIN a \cup {"force"} |->
                          IF k = "force" THEN PyBool(FALSE) ELSE a[k]]
        IN  /\ DOMAIN r = {"service", "action", "mode", "status", "timestamp"}
            /\ r.service = a.service_name
            /\ r.action = "restart"
            /\ r.status = "Success"
            /\ r.mode = IF given /\ a.force.bool THEN "force" ELSE "graceful"
            /\ ~given => SansTimestamp(r) \in
                   { SansTimestamp(x) : x \in execute_tool("restart_service", withOff) }

C19_Witness ==
    /\ callOut # None
    /\ callIn.fn = "execute_tool"
    /\ callIn.tool_name = "restart_service"
    /\ callIn.tool_args = [service_name |-> WebApi]
    /\ callOut.value.mode = "graceful"

\* the parts of a response that carry a function call
CallIndexes(parts) == { i \in DOMAIN parts : parts[i].function_call # None }

\* C20: whenever the response of the engine has a part with a function call,
\* analyze_request returns the action decision made of the first such part
\* in part order (its name as tool, its args as args), text parts before it
\* or not; the decision holds nothing else, so that the later calls and the
\* text of the response go nowhere.
C20_FirstCallHonored ==
    ( /\ callOut # None
      /\ callIn.fn = "analyze_request"
      /\ callIn.engine.fail \in {"none", "text"}
      /\ CallIndexes(callIn.engine.parts) # {} ) =>
        LET parts == callIn.engine.parts
            first == CHOOSE i \in CallIndexes(parts) :
                        \A j \in CallIndexes(parts) : i <= j
        IN  /\ callOut.ok
            /\ callOut.value = [type |-> "action",
                                tool |-> parts[first].function_call.name,
                                args |-> parts[first].function_call.args]

C20_Witness ==
    /\ callOut # None
    /\ callIn.fn = "analyze_request"
    /\ callIn.engine.fail = "none"
    /\ callIn.engine.parts =
          <<CallPart("nonexistent_tool", <<>>),
            CallPart("get_service_health", [service_name |-> WebApi])>>
    /\ callOut.value.tool = "nonexistent_tool"

\* the call cannot succeed: its tool is not registered, or its args do not
\* fit the tool
Invalid(c) ==
    \/ c.name \notin DOMAIN tool_map
    \/ Misfit(c.name, c.args)

\* the first function call of the response of engine e, if e answers with one
Proposed(e) ==
    LET first == CHOOSE i \in CallIndexes(e.parts) :
                    \A j \in CallIndexes(e.parts) : i <= j
    IN  e.parts[first].function_call

\* the turns of m whose content is an error result of execute_tool
ErrorTurns(m) == { i \in DOMAIN m : "error" \in DOMAIN m[i].content }

\* C21: tool name and arguments are checked at execution only: a function
\* call that names an unregistered tool or whose arguments do not fit is
\* returned by analyze_request as an action decision and stored in the slot
\* as it is; an "Unknown tool" or "Tool execution failed" result enters the
\* transcript only in the return of an execute_tool call made for an approved
\* proposal, and no reject step adds one.
C21_ValidationDeferred ==
    /\ [](pc = "analyzing" =>
            \A e \in SessionEngines :
                (e.fail = "none" /\ CallIndexes(e.parts) # {} /\ Invalid(Proposed(e))) =>
                    ENABLED ( /\ AnalyzeReturn(e)
                              /\ messages' = messages
                              /\ pending_action' = [type |-> "action",
                                                     tool |-> Proposed(e).name,
                                                     args |-> Proposed(e).args] ))
    /\ [][ ErrorTurns(messages') \ ErrorTurns(messages) # {} =>
              /\ event' = "execute_return"
              /\ pc = "executing"
              /\ execCount >= 1
              /\ lastExec = [tool |-> pending_action.tool,
                             args |-> pending_action.args]
              /\ messages'[Len(messages')].content
                     \in execute_tool(lastExec.tool, lastExec.args)
      ]_vars
    /\ [][ event' = "reject" =>
              ErrorTurns(messages') \subseteq ErrorTurns(messages) ]_vars

C21_Witness ==
    /\ event = "execute_return"
    /\ resolution = "approved"
    /\ messages[Len(messages)].content = [error |-> "Unknown tool: nonexistent_tool"]

\* C22: between operator events (no run of the script in progress) a
\* proposal is pending if and only if the transcript is non-empty and ends
\* with a user turn; the first turn of a non-empty transcript is a user
\* turn, and no user turn follows a user turn directly.
C22_TranscriptShape ==
    pc = "idle" =>
        /\ AwaitingApproval <=>
               (messages # <<>> /\ messages[Len(messages)].role = "user")
        /\ messages # <<>> => messages[1].role = "user"
        /\ \A i \in 1 .. Len(messages) - 1 :
               ~(messages[i].role = "user" /\ messages[i + 1].role = "user")

\* C23: the proposal stored is a decision analyze_request returns for the
\* user turn submitted last, it is not changed for as long as it is pending,
\* the approve step passes its tool and args to execute_tool, and the
\* announcement of the execution and the rejection notice name its tool.
C23_ProposalIntact ==
    [][ /\ (event' = "analyze_return" /\ pending_action' # None) =>
              /\ messages # <<>>
              /\ messages[Len(messages)].role = "user"
              /\ pending_action' \in Decisions("action")
        /\ (AwaitingApproval /\ pending_action' # None) =>
              pending_action' = pending_action
        /\ ExecuteCalled =>
              lastExec' = [tool |-> pending_action.tool, args |-> pending_action.args]
        /\ event' = "execute_return" =>
              /\ lastExec = [tool |-> pending_action.tool, args |-> pending_action.args]
              /\ Len(messages') = Len(messages) + 2
              /\ messages'[Len(messages) + 1] =
                     assistant(Announcement(pending_action.tool))
              /\ messages'[Len(messages) + 2].content
                     \in execute_tool(pending_action.tool, pending_action.args)
        /\ (event' = "reject" /\ AwaitingApproval) =>
              messages'[Len(messages')] =
                  assistant(RejectionNotice(pending_action.tool))
      ]_vars

C23_Witness ==
    /\ event = "execute_return"
    /\ lastExec = [tool |-> "restart_service",
                   args |-> [service_name |-> WebApi, force |-> PyBool(TRUE)]]
    /\ Len(messages) >= 3
    /\ messages[Len(messages) - 1] = assistant(Announcement("restart_service"))
    /\ messages[Len(messages)].content.mode = "force"

====
